---- MODULE Spec2Model ----
(***************************************************************************)
(* git-print-index: a streaming decoder of the git index file format.      *)
(* The model follows src/src/git-print-index.c: the byte stream, the       *)
(* digest-accumulating readers (c_fgetc, c_fread, seek, alloc_string), the *)
(* varint decoder, the entry decoder with the two report loops             *)
(* (parse_index_stat, and parse_index_ls when built with LS_ENTRIES), the  *)
(* extension loop of main with the TREE decoder, and the trailer check.    *)
(*                                                                         *)
(* Bytes are the integers 0..255.  A C string pointer is NULL (<<>>) or    *)
(* <<s>> with s the bytes before the terminating NUL.  The SHA-1 context   *)
(* is the sequence of bytes fed to it so far; SHA1_Final maps it to a      *)
(* 20-byte value (a small checksum stands for SHA-1).  The host is         *)
(* little-endian, as the signature constants of main assume.  Integers are *)
(* below 2^31 in every checked input, so no 32-bit field wraps.            *)
(***************************************************************************)
EXTENDS Integers, Sequences, FiniteSets, TLC

VARIABLES
    input,        \* ghost: how the stream was built (never read by the decoder)
    LS_ENTRIES,   \* build flag: TRUE = parse_index_ls, FALSE = parse_index_stat
    uninit,       \* content of memory the program reads before writing it
    stream,       \* the bytes of the file
    rd,           \* position of the FILE (bytes taken from the file so far)
    file_pos,     \* ctx.file_pos
    sha_ctx,      \* ctx.sha_ctx: [fed |-> bytes fed, finalized |-> BOOLEAN]
    version,      \* ctx.version
    entry_count,  \* ctx.entry_count
    idx,          \* loop index of the entry loops
    entry,        \* parse_index_stat: the one struct entry that is reused
    entries,      \* parse_index_ls: the malloc'ed array of struct entry
    last,         \* ghost: outcome of the last parse_index_entry call
    path_name,    \* the reconstructed version-4 path (NULL at first)
    reported,     \* what was handed to the formatter, entry by entry
    ext_log,      \* extension headers dispatched by main, in order
    endpos,       \* main: end of the TREE extension being decoded
    tree_stack,   \* pretty_read_tree: children still to decode, per open call
    tree_log,     \* tree nodes decoded, in order
    incomplete,   \* "Incomplete tree" was printed
    compared,     \* digest comparisons made, in order
    varint_out,   \* result of the stand-alone read_offset_delta call
    pc,           \* where the process is
    exit_status   \* "running", "0", "1", "SIGABRT" (assert) or "UB" (crash)

vars == << input, LS_ENTRIES, uninit, stream, rd, file_pos, sha_ctx, version,
           entry_count, idx, entry, entries, last, path_name, reported,
           ext_log, endpos, tree_stack, tree_log, incomplete, compared,
           varint_out, pc, exit_status >>

----------------------------------------------------------------------------
(* Bounds of the checked inputs.                                            *)

MaxEntries == 2
MaxNameLen == 7
MaxStrip == 2
MaxExts == 2
MaxSkip == 1
MaxTreeNodes == 4
MaxSubtrees == 2
MaxVarint == 300
MaxSpin == 2

----------------------------------------------------------------------------
(* Program constants.                                                       *)

EOF == -1
HeaderLen == 12
EntryFixedLen == 62
ExtHeaderLen == 8
DigestLen == 20
SeekChunk == 4096

NULL == << >>
Ptr(s) == << s >>

Min(a, b) == IF a < b THEN a ELSE b

Magic == << 68, 73, 82, 67 >>                       \* "DIRC"
SigTREE == << 84, 82, 69, 69 >>
SigREUC == << 82, 69, 85, 67 >>
Siglink == << 108, 105, 110, 107 >>
SigUNTR == << 85, 78, 84, 82 >>
SigFSMN == << 70, 83, 77, 78 >>
SigEOIE == << 69, 79, 73, 69 >>
SigIEOT == << 73, 69, 79, 84 >>
SkippedSigs == { SigREUC, Siglink, SigUNTR, SigFSMN, SigEOIE, SigIEOT }

----------------------------------------------------------------------------
(* Integers in memory: a uint32_t or uint16_t is held as its bytes in       *)
(* memory order; the host is little-endian; ntohl/ntohs swap the bytes.     *)

Bytes32(x) == << x % 256, (x \div 256) % 256, (x \div 65536) % 256,
                 (x \div 16777216) % 256 >>
Bytes16(x) == << x % 256, (x \div 256) % 256 >>
Host32(b) == b[1] + 256 * b[2] + 65536 * b[3] + 16777216 * b[4]
Host16(b) == b[1] + 256 * b[2]
Reverse(s) == [i \in 1..Len(s) |-> s[Len(s) + 1 - i]]
ntohl(w) == Reverse(w)
htonl(w) == Reverse(w)
ntohs(w) == Reverse(w)

\* memory holding `old`, its first bytes overwritten by what a read delivered
Overwrite(old, got) ==
    [i \in 1..Len(old) |-> IF i <= Len(got) THEN got[i] ELSE old[i]]

----------------------------------------------------------------------------
(* The digest.  SHA1_Update appends to the bytes fed; SHA1_Final maps the   *)
(* bytes fed to 20 bytes and cleanses the context.                          *)

SHA1_Init == [fed |-> << >>, finalized |-> FALSE]

SHA1_Update(ctx, bytes) == [ctx EXCEPT !.fed = @ \o bytes]

\* a polynomial checksum of the bytes fed, from the initial value h0
RECURSIVE ChecksumRange(_, _, _)
ChecksumRange(bytes, lo, hi) ==
    IF lo > hi THEN [sum |-> 0, pow |-> 1]
    ELSE IF lo = hi THEN [sum |-> (bytes[lo] + 1) % 32749, pow |-> 31]
    ELSE LET mid == (lo + hi) \div 2
             l == ChecksumRange(bytes, lo, mid)
             r == ChecksumRange(bytes, mid + 1, hi)
         IN  [sum |-> (l.sum * r.pow + r.sum) % 32749,
              pow |-> (l.pow * r.pow) % 32749]

Checksum(bytes, h0) ==
    LET c == ChecksumRange(bytes, 1, Len(bytes))
    IN  (h0 * c.pow + c.sum) % 32749

Digest(h) == << h \div 256, h % 256 >> \o [i \in 1..18 |-> 81]

\* a context that was already finalized was zeroed: it no longer starts
\* from the SHA-1 initial value
SHA1_Final(ctx) == Digest(Checksum(ctx.fed, IF ctx.finalized THEN 0 ELSE 7))

SHA1_Cleansed == [fed |-> << >>, finalized |-> TRUE]

----------------------------------------------------------------------------
(* Readers.  A reader state rs is [rd, file_pos, sha].                      *)

fread(p, n) == SubSeq(stream, p + 1, Min(p + n, Len(stream)))

c_fgetc(rs) ==
    IF rs.rd < Len(stream)
    THEN [rs |-> [rd |-> rs.rd + 1, file_pos |-> rs.file_pos + 1,
                  sha |-> SHA1_Update(rs.sha, << stream[rs.rd + 1] >>)],
          result |-> stream[rs.rd + 1]]
    ELSE [rs |-> rs, result |-> EOF]

c_fread(rs, a_nmemb) ==
    LET got == fread(rs.rd, a_nmemb)
    IN  [rs |-> [rd |-> rs.rd + Len(got), file_pos |-> rs.file_pos + Len(got),
                 sha |-> SHA1_Update(rs.sha, got)],
         data |-> got, result |-> Len(got)]

RECURSIVE seek_loop(_, _, _)
seek_loop(rs, remain, read) ==
    IF remain # 0 /\ read > 0
    THEN LET r == c_fread(rs, Min(remain, SeekChunk))
         IN  seek_loop(r.rs, remain - r.result, r.result)
    ELSE [rs |-> rs, remain |-> remain]

seek(rs, a_offset) ==
    LET r == seek_loop(rs, a_offset, SeekChunk)
    IN  [rs |-> r.rs, result |-> a_offset - r.remain]

RECURSIVE alloc_string_loop(_, _, _)
alloc_string_loop(a_char, rs, buffer) ==
    LET c == c_fgetc(rs)
    IN  IF c.result = a_char
        THEN [rs |-> c.rs, string |-> Ptr(buffer), result |-> Len(buffer)]
        ELSE IF c.result < 0
        THEN [rs |-> c.rs, string |-> NULL, result |-> -1]
        ELSE alloc_string_loop(a_char, c.rs, Append(buffer, c.result))

alloc_string(a_char, rs) == alloc_string_loop(a_char, rs, << >>)

----------------------------------------------------------------------------
(* read_offset_delta.                                                       *)

AddBiasNone(offset, byte_count, pow7) == offset

\* for (size_t pow7 = 0x80; --byte_count; pow7 <<= 7) offset += pow7;
RECURSIVE AddBias(_, _, _)
AddBias(offset, byte_count, pow7) ==
    IF byte_count - 1 # 0
    THEN AddBias(offset + pow7, byte_count - 1, pow7 * 128)
    ELSE offset

\* the do-while loop; at end of file next_char is EOF, whose bit 7 is set, so
\* the loop never ends: hang
RECURSIVE read_offset_delta_loop(_, _, _)
read_offset_delta_loop(rs, offset, byte_count) ==
    LET c == c_fgetc(rs)
        buffer == c.result % 256
        off == offset * 128 + (buffer % 128)
    IN  IF c.result = EOF
        THEN [rs |-> c.rs, offset |-> off, plain |-> off,
              byte_count |-> byte_count + 1, hang |-> TRUE]
        ELSE IF (c.result \div 128) % 2 = 1
        THEN read_offset_delta_loop(c.rs, off, byte_count + 1)
        ELSE [rs |-> c.rs, offset |-> AddBias(off, byte_count + 1, 128),
              plain |-> off, byte_count |-> byte_count + 1, hang |-> FALSE]

read_offset_delta(rs) == read_offset_delta_loop(rs, 0, 0)

----------------------------------------------------------------------------
(* atoi, on the bytes of a C string.                                        *)

IsSpace(b) == b = 32 \/ (b >= 9 /\ b <= 13)
IsDigit(b) == b >= 48 /\ b <= 57

RECURSIVE atoi_digits(_, _, _)
atoi_digits(s, i, acc) ==
    IF i <= Len(s) /\ IsDigit(s[i])
    THEN atoi_digits(s, i + 1, acc * 10 + (s[i] - 48))
    ELSE acc

RECURSIVE atoi_from(_, _)
atoi_from(s, i) ==
    IF i <= Len(s) /\ IsSpace(s[i]) THEN atoi_from(s, i + 1)
    ELSE IF i <= Len(s) /\ s[i] = 45 THEN 0 - atoi_digits(s, i + 1, 0)
    ELSE IF i <= Len(s) /\ s[i] = 43 THEN atoi_digits(s, i + 1, 0)
    ELSE atoi_digits(s, i, 0)

atoi(s) == atoi_from(s, 1)

----------------------------------------------------------------------------
(* parse_tree_entry.  A string that is NULL (end of file inside it) is      *)
(* handed to atoi: undefined behaviour, reported in the field ub.           *)

HasObjectIdPositive(a_entry_count) == a_entry_count > 0

HasObjectId(a_entry_count) == a_entry_count >= 0

parse_tree_entry(rs) ==
    LET p == alloc_string(0, rs)
        e == alloc_string(32, p.rs)
        s == alloc_string(10, e.rs)
        ub == e.string = NULL \/ s.string = NULL
        n_entries == IF ub THEN 0 ELSE atoi(e.string[1])
        n_subtrees == IF ub THEN 0 ELSE atoi(s.string[1])
        r == IF ~ub /\ HasObjectId(n_entries) THEN c_fread(s.rs, DigestLen)
             ELSE [rs |-> s.rs, data |-> << >>, result |-> 0]
    IN  [rs |-> r.rs, ub |-> ub, path |-> p.string, entry_count |-> n_entries,
         subtrees |-> n_subtrees,
         sha1_read |-> IF ~ub /\ HasObjectId(n_entries) THEN r.result ELSE -1]

\* the open calls of pretty_read_tree, without those that have no child left
RECURSIVE PopFinished(_)
PopFinished(stack) ==
    IF stack # << >> /\ stack[Len(stack)] = 0
    THEN PopFinished(SubSeq(stack, 1, Len(stack) - 1))
    ELSE stack

----------------------------------------------------------------------------
(* parse_index_entry.                                                       *)

HasExtendedFlags(a_version, flags) ==
    a_version >= 3 /\ (flags \div 16384) % 2 = 1

PadLenNoBias(a_file_pos) == 8 - (a_file_pos % 8)

PadLen(a_file_pos) == 8 - ((a_file_pos - 4) % 8)

NeedsPad(a_version, a_file_pos) == a_version < 4 /\ a_file_pos % 8 # 4

\* e0 is the struct as the caller passes it.  The fields of an entry whose
\* 62 bytes were not all read are left as they were: the caller's use of
\* such an entry is undefined behaviour (see the report steps).
parse_index_entry(rs, a_version, e0) ==
    LET r1 == c_fread(rs, EntryFixedLen)
    IN  IF r1.result = EntryFixedLen
        THEN
          LET flags == Host16(ntohs(SubSeq(r1.data, 61, 62)))
              hasx == HasExtendedFlags(a_version, flags)
              r2 == IF hasx THEN c_fread(r1.rs, 2)
                    ELSE [rs |-> r1.rs, data |-> << >>, result |-> 2]
              xflags == IF hasx
                        THEN Host16(ntohs(Overwrite(Bytes16(e0.extended_flags),
                                                    r2.data)))
                        ELSE e0.extended_flags
              r3 == IF a_version >= 4 THEN read_offset_delta(r2.rs)
                    ELSE [rs |-> r2.rs, offset |-> e0.prefix, hang |-> FALSE]
              r4 == alloc_string(0, r3.rs)
              pad == r4.string # NULL /\ NeedsPad(a_version, r4.rs.file_pos)
              pad_len == IF pad THEN PadLen(r4.rs.file_pos) ELSE 0
              r5 == IF pad THEN c_fread(r4.rs, pad_len)
                    ELSE [rs |-> r4.rs, data |-> << >>, result |-> 0]
          IN  IF r3.hang
              THEN [rs |-> r3.rs, hang |-> TRUE, result |-> 1, short |-> TRUE,
                    name_end |-> 0, entry |-> e0]
              ELSE [rs |-> r5.rs, hang |-> FALSE,
                    result |-> IF r4.string # NULL THEN 0 ELSE 1,
                    short |-> r2.result # 2 \/ r4.string = NULL
                              \/ r5.result # pad_len,
                    name_end |-> r4.rs.file_pos,
                    entry |-> [flags |-> flags, extended_flags |-> xflags,
                               prefix |-> r3.offset, file_name |-> r4.string,
                               file_name_len |-> r4.result,
                               pad_bytes_len |-> IF r4.string # NULL
                                                 THEN pad_len
                                                 ELSE e0.pad_bytes_len]]
        ELSE [rs |-> r1.rs, hang |-> FALSE, result |-> 1, short |-> TRUE,
              name_end |-> 0, entry |-> e0]

----------------------------------------------------------------------------
(* The version-4 path, as C string buffers (bytes, a NUL, then whatever the *)
(* allocation holds).                                                       *)

HeapByte == 255

strlen(buf) == (CHOOSE i \in 1..Len(buf) :
                    buf[i] = 0 /\ \A j \in 1..(i - 1) : buf[j] # 0) - 1
strdup(s) == s \o << 0 >>
realloc(buf, n) == [i \in 1..n |-> IF i <= Len(buf) THEN buf[i] ELSE HeapByte]
SetChar(buf, k, c) == [buf EXCEPT ![k + 1] = c]
strcat(dst, src) ==
    LET n == strlen(dst)
    IN  [i \in 1..Len(dst) |->
            IF i <= n THEN dst[i]
            ELSE IF i <= n + Len(src) THEN src[i - n]
            ELSE IF i = n + Len(src) + 1 THEN 0
            ELSE dst[i]]
CString(buf) == SubSeq(buf, 1, strlen(buf))

ReconstructPathKeepAll(a_path_name, a_prefix, a_file_name) ==
    IF a_path_name = NULL
    THEN [abort |-> a_prefix # 0, path_name |-> Ptr(strdup(a_file_name))]
    ELSE LET old == a_path_name[1]
         IN  [abort |-> a_prefix > strlen(old),
              path_name |-> Ptr(strdup(CString(old) \o a_file_name))]

\* the assert fails: abort.  Otherwise the new path_name.
ReconstructPath(a_path_name, a_prefix, a_file_name) ==
    IF a_path_name = NULL
    THEN [abort |-> a_prefix # 0, path_name |-> Ptr(strdup(a_file_name))]
    ELSE LET old == a_path_name[1]
             old_len == strlen(old)
         IN  IF a_prefix > old_len
             THEN [abort |-> TRUE, path_name |-> a_path_name]
             ELSE LET grown == realloc(old, old_len - a_prefix
                                            + Len(a_file_name) + 1)
                      cut == SetChar(grown, old_len - a_prefix, 0)
                  IN  [abort |-> FALSE, path_name |-> Ptr(strcat(cut, a_file_name))]

----------------------------------------------------------------------------
(* The inputs: byte streams built from a description d =                    *)
(*   [fam, sig, ver, compressed, ents, exts, trailer, cut].                 *)
(* ents are [name, x, strip]: with compressed, name is the suffix added     *)
(* after strip bytes are taken off the previous path (all version-4 inputs, *)
(* and the version-2 inputs that store the same logical paths in full);     *)
(* otherwise name is the full path.  exts are [sig, payload, tree].         *)

SkipWorktree == 16384

Rep(b, k) == [i \in 1..k |-> b]
SeqsUpTo(S, n) == UNION { [1..k -> S] : k \in 0..n }
BE32(n) == Reverse(Bytes32(n))
BE16(n) == Reverse(Bytes16(n))

RECURSIVE Flatten(_)
Flatten(ss) == IF ss = << >> THEN << >> ELSE Head(ss) \o Flatten(Tail(ss))

RECURSIVE DecDigits(_)
DecDigits(n) == IF n < 10 THEN << 48 + n >>
                ELSE DecDigits(n \div 10) \o << 48 + (n % 10) >>
Dec(n) == IF n < 0 THEN << 45 >> \o DecDigits(0 - n) ELSE DecDigits(n)

\* the biased 7-bit big-endian encoding (git's encode_varint)
RECURSIVE EncodeVarintHigh(_)
EncodeVarintHigh(v) ==
    IF v < 128 THEN << 128 + v >>
    ELSE EncodeVarintHigh((v \div 128) - 1) \o << 128 + (v % 128) >>
EncodeVarint(n) ==
    IF n < 128 THEN << n >>
    ELSE EncodeVarintHigh((n \div 128) - 1) \o << n % 128 >>

\* the plain base-128 value of an encoding
RECURSIVE PlainBase128(_, _, _)
PlainBase128(bytes, i, acc) ==
    IF i > Len(bytes) THEN acc
    ELSE PlainBase128(bytes, i + 1, acc * 128 + (bytes[i] % 128))

\* 0x80 + 0x80^2 + ... + 0x80^(k-1)
RECURSIVE CumulativeBias(_)
CumulativeBias(k) == IF k <= 1 THEN 0 ELSE 128 * (1 + CumulativeBias(k - 1))

(* Trees: the nodes in pre-order, each [subtrees, valid].                   *)

RECURSIVE SumTo(_, _, _)
SumTo(c, j, k) == IF k < j THEN 0 ELSE (c[k] - 1) + SumTo(c, j, k - 1)

WellFormedShape(c) ==
    /\ \A k \in 1..(Len(c) - 1) : SumTo(c, 1, k) >= 0
    /\ SumTo(c, 1, Len(c)) = -1

Shapes(n) == { c \in [1..n -> 0..MaxSubtrees] : WellFormedShape(c) }

Trees == UNION { { [i \in 1..n |-> [subtrees |-> c[i], valid |-> m[i]]] :
                      c \in Shapes(n), m \in [1..n -> BOOLEAN] } :
                 n \in 1..MaxTreeNodes }

SmallTree == << [subtrees |-> 1, valid |-> TRUE],
                [subtrees |-> 0, valid |-> FALSE] >>

NodePath(i) == IF i = 1 THEN << >> ELSE << 96 + i >>
NodeEntryCount(t, i) == IF ~t[i].valid THEN -1 ELSE IF i = 1 THEN 12 ELSE 0
NodeBytes(t, i) ==
    NodePath(i) \o << 0 >> \o Dec(NodeEntryCount(t, i)) \o << 32 >>
    \o Dec(t[i].subtrees) \o << 10 >>
    \o (IF t[i].valid THEN Rep(34, DigestLen) ELSE << >>)
TreePayload(t) == Flatten([i \in 1..Len(t) |-> NodeBytes(t, i)])

\* last node of the subtree rooted at node j
SpanEnd(t, j) ==
    CHOOSE m \in j..Len(t) :
        /\ SumTo([i \in 1..Len(t) |-> t[i].subtrees], j, m) = -1
        /\ \A k \in j..(m - 1) :
              SumTo([i \in 1..Len(t) |-> t[i].subtrees], j, k) >= 0
NodeLevel(t, i) == Cardinality({ j \in 1..(i - 1) : SpanEnd(t, j) >= i })

PreOrder(t) ==
    [i \in 1..Len(t) |->
        [path |-> Ptr(NodePath(i)), entry_count |-> NodeEntryCount(t, i),
         subtrees |-> t[i].subtrees, level |-> NodeLevel(t, i),
         sha1_read |-> IF t[i].valid THEN DigestLen ELSE -1]]

TreeExt(t) == [sig |-> SigTREE, payload |-> TreePayload(t), tree |-> t]
SkipExt(sig, k) == [sig |-> sig, payload |-> Rep(90, k), tree |-> << >>]
TreeOK(e) ==
    e.sig # SigTREE
    \/ WellFormedShape([i \in 1..Len(e.tree) |-> e.tree[i].subtrees])
ExtBytes(e) == e.sig \o BE32(Len(e.payload)) \o e.payload

(* Entries.                                                                 *)

FixedBytes(flags) ==
    Rep(0, 24) \o << 0, 0, 129, 164 >> \o Rep(0, 12) \o Rep(17, 20)
    \o BE16(flags)

RECURSIVE Accumulate(_, _, _)
Accumulate(ents, i, acc) ==
    IF i > Len(ents) THEN acc
    ELSE LET prev == IF i = 1 THEN << >> ELSE acc[i - 1]
             keep == IF ents[i].strip > Len(prev) THEN 0
                     ELSE Len(prev) - ents[i].strip
         IN  Accumulate(ents, i + 1,
                        Append(acc, SubSeq(prev, 1, keep) \o ents[i].name))

LogicalPaths(d) ==
    IF d.compressed THEN Accumulate(d.ents, 1, << >>)
    ELSE [i \in 1..Len(d.ents) |-> d.ents[i].name]

ValidStrips(d) ==
    LET paths == LogicalPaths(d)
    IN  \A i \in 1..Len(d.ents) :
           d.ents[i].strip <= (IF i = 1 THEN 0 ELSE Len(paths[i - 1]))

PadTo8(pos) == (8 - ((pos - 4) % 8)) % 8

EntryBytes(d, paths, i, off) ==
    LET e == d.ents[i]
        stored == IF d.ver >= 4 THEN e.name ELSE paths[i]
        flags == (IF e.x THEN 16384 ELSE 0) + (Len(stored) % 4096)
        bytes == FixedBytes(flags)
                 \o (IF d.ver >= 3 /\ e.x THEN BE16(SkipWorktree) ELSE << >>)
                 \o (IF d.ver >= 4 THEN EncodeVarint(e.strip) ELSE << >>)
                 \o stored \o << 0 >>
    IN  bytes \o (IF d.ver < 4 THEN Rep(0, PadTo8(off + Len(bytes)))
                  ELSE << >>)

RECURSIVE EntriesBytes(_, _, _, _)
EntriesBytes(d, paths, i, acc) ==
    IF i > Len(d.ents) THEN acc
    ELSE EntriesBytes(d, paths, i + 1,
                      acc \o EntryBytes(d, paths, i, HeaderLen + Len(acc)))

HeaderBytes(d) == d.sig \o BE32(d.ver) \o BE32(Len(d.ents))

\* the stream of d and what the claims need to know of how it was built
Build(d) ==
    LET paths == LogicalPaths(d)
        ebytes == EntriesBytes(d, paths, 1, << >>)
        body == HeaderBytes(d) \o ebytes
                \o Flatten([i \in 1..Len(d.exts) |-> ExtBytes(d.exts[i])])
        trailer == IF d.trailer = "good"
                   THEN SHA1_Final(SHA1_Update(SHA1_Init, body))
                   ELSE IF d.trailer = "tag"
                   THEN SigTREE \o BE32(0) \o Rep(42, DigestLen - ExtHeaderLen)
                   ELSE Rep(42, DigestLen)
        full == body \o trailer
    IN  [stream |-> IF d.cut < 0 THEN full ELSE SubSeq(full, 1, d.cut),
         ghost |->
           [fam |-> d.fam, ver |-> d.ver, sig |-> d.sig, ents |-> d.ents,
            logical |-> paths, valid_strips |-> ValidStrips(d),
            trees |-> [i \in 1..Len(d.exts) |->
                          IF d.exts[i].sig = SigTREE /\ TreeOK(d.exts[i])
                          THEN PreOrder(d.exts[i].tree)
                          ELSE << >>],
            exts |-> [i \in 1..Len(d.exts) |->
                          [sig |-> d.exts[i].sig,
                           len |-> Len(d.exts[i].payload)]],
            entries_end |-> HeaderLen + Len(ebytes),
            trailer_start |-> Len(body),
            full_len |-> Len(full),
            cut |-> d.cut,
            wellformed |-> /\ d.sig = Magic
                           /\ d.trailer = "good"
                           /\ d.cut < 0
                           /\ ValidStrips(d)
                           /\ \A i \in 1..Len(d.exts) : TreeOK(d.exts[i])
                           /\ \A i \in 1..Len(d.exts) :
                                 d.exts[i].sig \in SkippedSigs \cup {SigTREE}
                           /\ \A i \in 1..Len(d.ents) :
                                 d.ver >= 3 \/ ~d.ents[i].x,
            n |-> 0]]

Desc(fam, sig, ver, compressed, ents, exts, trailer, cut) ==
    [fam |-> fam, sig |-> sig, ver |-> ver, compressed |-> compressed,
     ents |-> ents, exts |-> exts, trailer |-> trailer, cut |-> cut]

Ent(name, x, strip) == [name |-> name, x |-> x, strip |-> strip]

Suffixes == { << >>, << 97 >>, << 98 >>, << 97, 98 >> }
BadSig == << 88, 88, 88, 88 >>                      \* "XXXX"

\* names of every length up to MaxNameLen, with or without extended flags
FamPad ==
    { Desc("pad", Magic, v, FALSE, es, << >>, "good", -1) :
        v \in {2, 3},
        es \in UNION { SeqsUpTo({ Ent(Rep(97, k), x, 0) : k \in 0..MaxNameLen },
                                MaxEntries) : x \in BOOLEAN } }

\* sequences of (strip, suffix): version 4, and version 2 with the same
\* logical paths stored in full when the strips are valid
FamPath ==
    { d \in { Desc("path", Magic, v, TRUE, es, << >>, "good", -1) :
                v \in {2, 4},
                es \in SeqsUpTo({ Ent(s, FALSE, k) :
                                     s \in Suffixes, k \in 0..MaxStrip },
                                MaxEntries) } :
        d.ver = 4 \/ ValidStrips(d) }

\* entries with and without extended flags, in every order
FamX ==
    { Desc("x", Magic, v, v >= 4, es, << >>, "good", -1) :
        v \in {2, 3, 4},
        es \in SeqsUpTo({ Ent(<< 97 >>, x, 0) : x \in BOOLEAN }, MaxEntries) }

ExtChoices ==
    { TreeExt(SmallTree) }
    \cup { SkipExt(SigREUC, k) : k \in 0..MaxSkip }
    \cup { SkipExt(sig, 1) : sig \in SkippedSigs \ { SigREUC } }

FamExt ==
    { Desc("ext", Magic, 2, FALSE, << Ent(<< 97 >>, FALSE, 0) >>, xs, t, -1) :
        xs \in SeqsUpTo(ExtChoices, MaxExts), t \in {"good", "bad"} }

FamTree ==
    { Desc("tree", Magic, 2, FALSE, << >>, << TreeExt(t) >>, "good", -1) :
        t \in Trees }

\* a TREE extension whose root declares a child that the payload lacks
FamBadTree ==
    LET t == << [subtrees |-> 1, valid |-> TRUE] >>
    IN  { Desc("badtree", Magic, 2, FALSE, << >>,
               << [sig |-> SigTREE, payload |-> NodeBytes(t, 1), tree |-> t] >>,
               "good", -1) }

TruncBases ==
    { Desc("trunc", Magic, 2, FALSE,
           << Ent(<< 97 >>, FALSE, 0), Ent(<< 97, 98 >>, FALSE, 0) >>,
           << TreeExt(SmallTree) >>, "good", -1),
      Desc("trunc", Magic, 3, FALSE,
           << Ent(<< 97 >>, TRUE, 0), Ent(<< 98 >>, FALSE, 0) >>,
           << SkipExt(SigREUC, 1) >>, "good", -1),
      Desc("trunc", Magic, 4, TRUE,
           << Ent(<< 97, 98 >>, FALSE, 0), Ent(<< 98 >>, FALSE, 1) >>,
           << >>, "good", -1) }

\* every proper prefix of a few well-formed streams
FamTrunc ==
    UNION { { [d EXCEPT !.cut = k] : k \in 0..(Build(d).ghost.full_len - 1) } :
            d \in TruncBases }

\* a wrong signature, whole and cut short
FamBadMagic ==
    LET d == Desc("badmagic", BadSig, 2, FALSE, << Ent(<< 97 >>, FALSE, 0) >>,
                  << >>, "good", -1)
    IN  { d } \cup { [d EXCEPT !.cut = k] : k \in 0..(HeaderLen + 1) }

\* an extension with a tag the switch does not know, before the trailer;
\* a stored trailer that begins with the tag TREE
FamTrailer ==
    { Desc("trailer", Magic, 2, FALSE, << Ent(<< 97 >>, FALSE, 0) >>, xs, t,
           -1) :
        xs \in { << >> }
               \cup { << SkipExt(BadSig, k) >> : k \in 0..(MaxSkip + 12) },
        t \in {"good", "bad", "tag"} }

Descriptions ==
    FamPad \cup FamPath \cup FamX \cup FamExt \cup FamTree \cup FamBadTree
    \cup FamTrunc \cup FamBadMagic \cup FamTrailer

\* what the uninitialised struct header / malloc'ed entries may hold
HeaderGarbage(d) ==
    IF d.cut >= 0 /\ d.cut < HeaderLen
    THEN { Rep(0, HeaderLen), Magic \o BE32(2) \o BE32(1) }
    ELSE { Rep(0, HeaderLen) }

HeapGarbage(d, ls) == IF ls /\ d.fam = "x" THEN { 0, 65535 } ELSE { 0 }

----------------------------------------------------------------------------
(* The state after construction: main's ctx, before parse_header.           *)

RS == [rd |-> rd, file_pos |-> file_pos, sha |-> sha_ctx]

\* struct entry entry = { .extended_flags = 0 };
EntryZero ==
    [flags |-> 0, extended_flags |-> 0, prefix |-> 0, file_name |-> NULL,
     file_name_len |-> 0, pad_bytes_len |-> 0]

\* one element of malloc( entry_count * sizeof( struct entry ) )
EntryUninit == [EntryZero EXCEPT !.extended_flags = uninit.heap]

NoCall == [called |-> FALSE, result |-> 0, short |-> FALSE, name_end |-> 0,
           end_pos |-> 0, results |-> << >>]

NoVarint == [offset |-> 0, plain |-> 0, byte_count |-> 0, hang |-> FALSE]

Start(ghost, ls, u, bytes, at) ==
    /\ input = ghost
    /\ LS_ENTRIES = ls
    /\ uninit = u
    /\ stream = bytes
    /\ rd = 0
    /\ file_pos = 0
    /\ sha_ctx = SHA1_Init
    /\ version = 0
    /\ entry_count = 0
    /\ idx = 0
    /\ entry = EntryZero
    /\ entries = << >>
    /\ last = NoCall
    /\ path_name = NULL
    /\ reported = << >>
    /\ ext_log = << >>
    /\ endpos = 0
    /\ tree_stack = << >>
    /\ tree_log = << >>
    /\ incomplete = FALSE
    /\ compared = << >>
    /\ varint_out = NoVarint
    /\ pc = at
    /\ exit_status = "running"

Init ==
    \E d \in Descriptions, ls \in BOOLEAN :
      \E hg \in HeaderGarbage(d), xg \in HeapGarbage(d, ls) :
        LET b == Build(d)
        IN  Start(b.ghost, ls, [header |-> hg, heap |-> xg], b.stream,
                  "header")

Exit(status) == pc' = "done" /\ exit_status' = status

Reader(rs) == rd' = rs.rd /\ file_pos' = rs.file_pos /\ sha_ctx' = rs.sha

----------------------------------------------------------------------------
(* main, lines 697-700, with parse_header.                                  *)

HeaderResultAccept(signature) == 0

\* memcmp( header.signature, "DIRC", 4 ) ? 1 : 0
HeaderResult(signature) == IF signature # Magic THEN 1 ELSE 0

ParseHeader ==
    /\ pc = "header"
    /\ LET r == c_fread(RS, HeaderLen)
           header == Overwrite(uninit.header, r.data)
           count == Host32(ntohl(SubSeq(header, 9, 12)))
       IN  /\ Reader(r.rs)
           /\ version' = Host32(ntohl(SubSeq(header, 5, 8)))
           /\ entry_count' = count
           /\ IF HeaderResult(SubSeq(header, 1, 4)) # 0
              THEN Exit("1") /\ UNCHANGED entries
              ELSE /\ pc' = IF LS_ENTRIES THEN "ls_parse" ELSE "stat"
                   /\ exit_status' = exit_status
                   /\ entries' = IF LS_ENTRIES
                                 THEN [i \in 1..count |-> EntryUninit]
                                 ELSE entries
    /\ UNCHANGED << input, LS_ENTRIES, uninit, stream, idx, entry, last,
                    path_name, reported, ext_log, endpos, tree_stack,
                    tree_log, incomplete, compared, varint_out >>

----------------------------------------------------------------------------
(* The entry loops.                                                         *)

Called(r) ==
    [called |-> TRUE, result |-> r.result, short |-> r.short,
     name_end |-> r.name_end, end_pos |-> r.rs.file_pos,
     results |-> Append(last.results, r.result)]

\* what the formatter is handed for entry e; x is the value passed to
\* print_extended_flags(_long), -1 when it is not called
Report(e, path, x) ==
    [ok |-> TRUE, path |-> path, flags |-> e.flags, extended_flags |-> x,
     file_name_len |-> e.file_name_len]

\* the report of an entry that parse_index_entry failed on: its file_name is
\* NULL, dangling or uninitialised
GarbageReport ==
    [ok |-> FALSE, path |-> << >>, flags |-> 0, extended_flags |-> -1,
     file_name_len |-> -1]

\* lines 493-507 / 636-649: the path printed, or the assert that fails
PrintPath(e) ==
    IF version >= 4
    THEN LET p == ReconstructPath(path_name, e.prefix, e.file_name[1])
         IN  [abort |-> p.abort, path_name |-> p.path_name,
              printed |-> IF p.abort THEN << >> ELSE CString(p.path_name[1])]
    ELSE [abort |-> FALSE, path_name |-> path_name, printed |-> e.file_name[1]]

EntryRest == << input, LS_ENTRIES, uninit, stream, version, entry_count,
                ext_log, endpos, tree_stack, tree_log, incomplete, compared,
                varint_out >>

\* one iteration of the loop of parse_index_stat
StatEntry ==
    /\ pc = "stat"
    /\ idx < entry_count
    /\ LET r == parse_index_entry(RS, version, entry)
       IN  /\ Reader(r.rs)
           /\ last' = Called(r)
           /\ entry' = r.entry
           /\ entries' = entries
           /\ \/ /\ r.hang
                 /\ pc' = "hang"
                 /\ UNCHANGED << idx, path_name, reported, exit_status >>
              \/ /\ ~r.hang /\ r.result = 0
                 /\ LET p == PrintPath(r.entry)
                    IN  IF p.abort
                        THEN /\ Exit("SIGABRT")
                             /\ UNCHANGED << idx, path_name, reported >>
                        ELSE /\ path_name' = p.path_name
                             /\ reported' = Append(reported,
                                   Report(r.entry, p.printed,
                                          r.entry.extended_flags))
                             /\ idx' = idx + 1
                             /\ UNCHANGED << pc, exit_status >>
              \/ /\ ~r.hang /\ r.result # 0
                 /\ reported' = Append(reported, GarbageReport)
                 /\ idx' = idx + 1
                 /\ UNCHANGED << pc, exit_status, path_name >>
              \/ /\ ~r.hang /\ r.result # 0
                 /\ Exit("UB")
                 /\ UNCHANGED << idx, path_name, reported >>
    /\ UNCHANGED EntryRest

\* the loop ends; the result of parse_index_stat is dropped by main
StatDone ==
    /\ pc = "stat"
    /\ idx >= entry_count
    /\ pc' = "ext"
    /\ UNCHANGED << input, LS_ENTRIES, uninit, stream, rd, file_pos, sha_ctx,
                    version, entry_count, idx, entry, entries, last,
                    path_name, reported, ext_log, endpos, tree_stack,
                    tree_log, incomplete, compared, varint_out, exit_status >>

\* one iteration of the first loop of parse_index_ls
LsParse ==
    /\ pc = "ls_parse"
    /\ idx < entry_count
    /\ LET r == parse_index_entry(RS, version, entries[idx + 1])
       IN  /\ Reader(r.rs)
           /\ last' = Called(r)
           /\ entries' = [entries EXCEPT ![idx + 1] = r.entry]
           /\ IF r.hang
              THEN pc' = "hang" /\ idx' = idx
              ELSE pc' = pc /\ idx' = idx + 1
    /\ UNCHANGED << entry, path_name, reported, exit_status >>
    /\ UNCHANGED EntryRest

\* read_offset_delta at end of file: one more iteration of its do-while
\* loop.  c_fgetc returns EOF and leaves the context as it is, next_char &
\* 0x80 is nonzero, so the loop goes round again; byte_count is counted up
\* to MaxSpin, offset is not read again.
VarintSpin ==
    /\ pc = "hang"
    /\ LET c == c_fgetc(RS)
       IN  /\ c.result = EOF
           /\ ((c.result % 256) \div 128) % 2 = 1
           /\ Reader(c.rs)
    /\ varint_out' = [varint_out EXCEPT
                         !.byte_count = Min(@ + 1, MaxSpin), !.hang = TRUE]
    /\ UNCHANGED << input, LS_ENTRIES, uninit, stream, version, entry_count,
                    idx, entry, entries, last, path_name, reported, ext_log,
                    endpos, tree_stack, tree_log, incomplete, compared, pc,
                    exit_status >>

LsParseDone ==
    /\ pc = "ls_parse"
    /\ idx >= entry_count
    /\ pc' = "ls_print"
    /\ idx' = 0
    /\ UNCHANGED << input, LS_ENTRIES, uninit, stream, rd, file_pos, sha_ctx,
                    version, entry_count, entry, entries, last,
                    path_name, reported, ext_log, endpos, tree_stack,
                    tree_log, incomplete, compared, varint_out, exit_status >>

\* one iteration of the second loop of parse_index_ls
LsPrint ==
    /\ pc = "ls_print"
    /\ idx < entry_count
    /\ LET e == entries[idx + 1]
       IN  \/ /\ last.results[idx + 1] = 0
              /\ LET p == PrintPath(e)
                 IN  IF p.abort
                     THEN /\ Exit("SIGABRT")
                          /\ UNCHANGED << idx, path_name, reported >>
                     ELSE /\ path_name' = p.path_name
                          /\ reported' = Append(reported,
                                Report(e, p.printed,
                                       IF version >= 3 THEN e.extended_flags
                                       ELSE -1))
                          /\ idx' = idx + 1
                          /\ UNCHANGED << pc, exit_status >>
           \/ /\ last.results[idx + 1] # 0
              /\ reported' = Append(reported, GarbageReport)
              /\ idx' = idx + 1
              /\ UNCHANGED << pc, exit_status, path_name >>
           \/ /\ last.results[idx + 1] # 0
              /\ Exit("UB")
              /\ UNCHANGED << idx, path_name, reported >>
    /\ UNCHANGED << rd, file_pos, sha_ctx, entry, entries, last >>
    /\ UNCHANGED EntryRest

LsPrintDone ==
    /\ pc = "ls_print"
    /\ idx >= entry_count
    /\ pc' = "ext"
    /\ UNCHANGED << input, LS_ENTRIES, uninit, stream, rd, file_pos, sha_ctx,
                    version, entry_count, idx, entry, entries, last,
                    path_name, reported, ext_log, endpos, tree_stack,
                    tree_log, incomplete, compared, varint_out, exit_status >>

----------------------------------------------------------------------------
(* main, lines 708-784: the extension loop.  Each action is one iteration:  *)
(* fread of 8 bytes straight from the file, then the switch.                *)

ExtHeader == fread(rd, ExtHeaderLen)
ExtSig == SubSeq(ExtHeader, 1, 4)
ExtLenWord == ntohl(SubSeq(ExtHeader, 5, 8))
ExtLen == Host32(ExtLenWord)

ExtRest == << input, LS_ENTRIES, uninit, stream, version, entry_count, idx,
              entry, entries, last, path_name, reported, tree_log,
              incomplete, varint_out >>

\* endpos, a local of the loop body, is read by the TREE case only
Dispatched == Append(ext_log, [sig |-> ExtSig, len |-> ExtLen, at |-> rd])

\* fewer than 8 bytes are left: the loop ends and main returns 0
ExtLoopExit ==
    /\ pc = "ext"
    /\ Len(ExtHeader) # ExtHeaderLen
    /\ rd' = rd + Len(ExtHeader)
    /\ Exit("0")
    /\ UNCHANGED << file_pos, sha_ctx, ext_log, endpos, tree_stack, compared >>
    /\ UNCHANGED ExtRest

\* case TREE: the header is fed to the digest with its length swapped back
ExtTree ==
    /\ pc = "ext"
    /\ Len(ExtHeader) = ExtHeaderLen
    /\ ExtSig = SigTREE
    /\ rd' = rd + ExtHeaderLen
    /\ file_pos' = file_pos + ExtHeaderLen
    /\ endpos' = file_pos + ExtHeaderLen + ExtLen
    /\ sha_ctx' = SHA1_Update(sha_ctx, ExtSig \o ntohl(ExtLenWord))
    /\ ext_log' = Dispatched
    /\ tree_stack' = << >>
    /\ pc' = "tree"
    /\ UNCHANGED << compared, exit_status >>
    /\ UNCHANGED ExtRest

\* case REUC, link, UNTR, FSMN, EOIE, IEOT: seek over the payload
ExtSkip ==
    /\ pc = "ext"
    /\ Len(ExtHeader) = ExtHeaderLen
    /\ ExtSig \in SkippedSigs
    /\ LET r == seek([rd |-> rd + ExtHeaderLen,
                      file_pos |-> file_pos + ExtHeaderLen, sha |-> sha_ctx],
                     ExtLen)
       IN  Reader(r.rs)
    /\ ext_log' = Dispatched
    /\ UNCHANGED << endpos, tree_stack, compared, pc, exit_status >>
    /\ UNCHANGED ExtRest

\* what char hash[20] may hold where fread did not write
StackGarbage(md, more) ==
    IF Len(more) = 12 THEN { Rep(0, 12) }
    ELSE { Rep(0, 12), SubSeq(md, 9, DigestLen) }

\* default: the 8 bytes are taken to be the start of the trailer
ExtHash ==
    /\ pc = "ext"
    /\ Len(ExtHeader) = ExtHeaderLen
    /\ ExtSig # SigTREE
    /\ ExtSig \notin SkippedSigs
    /\ LET md == SHA1_Final(sha_ctx)
           more == fread(rd + ExtHeaderLen, 12)
       IN  \E g \in StackGarbage(md, more) :
             LET hash == ExtSig \o htonl(ExtLenWord) \o Overwrite(g, more)
             IN  /\ rd' = rd + ExtHeaderLen + Len(more)
                 /\ file_pos' = file_pos + ExtHeaderLen + Len(more)
                 /\ compared' = Append(compared,
                       [fed |-> sha_ctx.fed, finalized |-> sha_ctx.finalized,
                        at |-> rd, got |-> ExtHeaderLen + Len(more),
                        hash |-> hash, md |-> md, match |-> hash = md])
    /\ sha_ctx' = SHA1_Cleansed
    /\ UNCHANGED << ext_log, endpos, tree_stack, pc, exit_status >>
    /\ UNCHANGED ExtRest

----------------------------------------------------------------------------
(* The TREE extension: main's while loop around pretty_read_tree.  Each     *)
(* action is one call of pretty_read_tree up to its first recursive call;   *)
(* tree_stack holds, for every call that is still open, the number of       *)
(* children it has yet to call.                                             *)

TreeRest == << input, LS_ENTRIES, uninit, stream, version, entry_count, idx,
               entry, entries, last, path_name, reported, ext_log, endpos,
               compared, varint_out >>

\* the stack once the caller has counted the call being made
Entered == IF tree_stack = << >> THEN tree_stack
           ELSE [tree_stack EXCEPT ![Len(tree_stack)] = @ - 1]

CallEnabled ==
    /\ pc = "tree"
    /\ ~(tree_stack = << >> /\ file_pos >= endpos)

\* the call decodes a node
TreeNode ==
    /\ CallEnabled
    /\ file_pos < endpos
    /\ LET r == parse_tree_entry(RS)
       IN  /\ Reader(r.rs)
           /\ IF r.ub
              THEN /\ Exit("UB")
                   /\ UNCHANGED << tree_stack, tree_log >>
              ELSE /\ tree_log' = Append(tree_log,
                         [path |-> r.path, entry_count |-> r.entry_count,
                          subtrees |-> r.subtrees, level |-> Len(tree_stack),
                          sha1_read |-> r.sha1_read])
                   /\ tree_stack' = PopFinished(Append(Entered, r.subtrees))
                   /\ UNCHANGED << pc, exit_status >>
    /\ incomplete' = incomplete
    /\ UNCHANGED TreeRest

\* a child is called at or past the end of the extension
TreeIncomplete ==
    /\ CallEnabled
    /\ file_pos >= endpos
    /\ incomplete' = TRUE
    /\ tree_stack' = PopFinished(Entered)
    /\ UNCHANGED << rd, file_pos, sha_ctx, tree_log, pc, exit_status >>
    /\ UNCHANGED TreeRest

\* main's while loop ends
TreeDone ==
    /\ pc = "tree"
    /\ tree_stack = << >>
    /\ file_pos >= endpos
    /\ pc' = "ext"
    /\ UNCHANGED << rd, file_pos, sha_ctx, tree_stack, tree_log, incomplete,
                    exit_status >>
    /\ UNCHANGED TreeRest

----------------------------------------------------------------------------

Next ==
    \/ ParseHeader
    \/ StatEntry
    \/ StatDone
    \/ LsParse
    \/ LsParseDone
    \/ LsPrint
    \/ LsPrintDone
    \/ VarintSpin
    \/ ExtLoopExit
    \/ ExtTree
    \/ ExtSkip
    \/ ExtHash
    \/ TreeNode
    \/ TreeIncomplete
    \/ TreeDone

Spec == Init /\ [][Next]_vars

----------------------------------------------------------------------------
(* read_offset_delta on its own: the stream is the encoding of n followed   *)
(* by one more byte.                                                        *)

VarintInputs == 0..MaxVarint \cup 16300..16600 \cup 2113500..2113800
                \cup { 270549119 }

VarintGhost(n) ==
    [fam |-> "varint", ver |-> 0, sig |-> << >>, ents |-> << >>,
     logical |-> << >>, valid_strips |-> TRUE, trees |-> << >>,
     exts |-> << >>, entries_end |-> 0, trailer_start |-> 0, full_len |-> 0,
     cut |-> -1,
     wellformed |-> FALSE, n |-> n]

InitVarint ==
    \E n \in VarintInputs :
        Start(VarintGhost(n), FALSE, [header |-> Rep(0, HeaderLen), heap |-> 0],
              EncodeVarint(n) \o << 255 >>, "varint")

VarintCall ==
    /\ pc = "varint"
    /\ LET r == read_offset_delta(RS)
       IN  /\ Reader(r.rs)
           /\ varint_out' = [offset |-> r.offset, plain |-> r.plain,
                             byte_count |-> r.byte_count, hang |-> r.hang]
           /\ pc' = IF r.hang THEN "hang" ELSE "varint_done"
    /\ UNCHANGED << input, LS_ENTRIES, uninit, stream, version, entry_count,
                    idx, entry, entries, last, path_name, reported, ext_log,
                    endpos, tree_stack, tree_log, incomplete, compared,
                    exit_status >>

SpecVarint == InitVarint /\ [][VarintCall]_vars

----------------------------------------------------------------------------
(* Properties.                                                              *)

Prefix(s, t) == Len(s) <= Len(t) /\ s = SubSeq(t, 1, Len(s))

\* C1: for a well-formed input (header, entries, TREE and skipped
\* extensions, trailer = digest of all bytes before it) the bytes fed to
\* the digest when it is compared are exactly the bytes before the trailer,
\* and the comparison reports a match.
C1_DigestCoversStream ==
    input.wellformed =>
        \A i \in 1..Len(compared) :
            /\ compared[i].fed = SubSeq(stream, 1, input.trailer_start)
            /\ compared[i].match

\* C2: once parse_index_entry has failed on a stream that ends inside an
\* entry, no further entry is decoded or reported, the extension loop and
\* the digest comparison are not run, and the exit status is 1.
C2_TruncatedEntryAborts ==
    (Len(stream) >= HeaderLen /\ SubSeq(stream, 1, 4) = Magic) =>
      \A i \in 1..Len(last.results) :
        last.results[i] # 0 =>
            /\ i = Len(last.results)
            /\ Len(reported) <= i
            /\ pc \notin {"ext", "tree"}
            /\ ext_log = << >>
            /\ compared = << >>
            /\ pc = "done" => exit_status = "1"

\* C3: exit status 0 only after a comparison of the digest against a
\* complete 20-byte trailer; a stream that ends before such a trailer could
\* be read never ends with exit status 0.
C3_ExitZeroAfterComparison ==
    exit_status = "0" =>
        \E i \in 1..Len(compared) : compared[i].got = DigestLen

BadMagic == Len(stream) >= 4 /\ SubSeq(stream, 1, 4) # Magic

NothingDecoded ==
    /\ ~last.called
    /\ reported = << >>
    /\ ext_log = << >>
    /\ tree_log = << >>
    /\ compared = << >>

\* C4, as stated: a stream whose first 4 bytes are not "DIRC" ends the
\* session with exit status 1 and exactly the 12 header bytes consumed,
\* nothing else decoded.
C4_BadMagicConsumesTwelve ==
    (BadMagic /\ pc # "header") =>
        /\ pc = "done" /\ exit_status = "1"
        /\ rd = HeaderLen /\ file_pos = HeaderLen
        /\ NothingDecoded

\* C4, amended: ... with the first min(12, stream length) bytes consumed.
C4_BadMagicStops ==
    (BadMagic /\ pc # "header") =>
        /\ pc = "done" /\ exit_status = "1"
        /\ rd = Min(HeaderLen, Len(stream)) /\ file_pos = rd
        /\ NothingDecoded

C4_Witness ==
    /\ BadMagic /\ pc = "done" /\ exit_status = "1"
    /\ rd = HeaderLen /\ Len(stream) > HeaderLen

\* index of the first entry whose strip length is not valid (0 if none)
FirstBadStrip ==
    IF input.valid_strips THEN 0
    ELSE CHOOSE i \in 1..Len(input.ents) :
            /\ input.ents[i].strip >
                  (IF i = 1 THEN 0 ELSE Len(input.logical[i - 1]))
            /\ \A j \in 1..(i - 1) :
                  input.ents[j].strip <=
                      (IF j = 1 THEN 0 ELSE Len(input.logical[j - 1]))

\* C5: in version 4, an entry whose path_prefix_len is not valid is neither
\* accepted (reported as decoded) nor ends the process by a failed assertion.
C5_BadPrefixIsAnError ==
    (input.ver >= 4 /\ input.cut < 0 /\ ~input.valid_strips) =>
        /\ exit_status # "SIGABRT"
        /\ \A i \in 1..Len(reported) : reported[i].ok => i < FirstBadStrip

\* C6: read_offset_delta on the encoding of n returns n, consumes exactly
\* the bytes of the encoding, stops at the first byte whose high bit is
\* clear, and adds 0x80 + ... + 0x80^(k-1) to the plain base-128 value.
C6_VarintRoundTrip ==
    /\ pc # "hang"
    /\ pc = "varint_done" =>
          LET enc == EncodeVarint(input.n)
          IN  /\ varint_out.offset = input.n
              /\ rd = Len(enc) /\ file_pos = Len(enc)
              /\ varint_out.byte_count = Len(enc)
              /\ stream[rd] < 128
              /\ \A j \in 1..(rd - 1) : stream[j] >= 128
              /\ varint_out.plain = PlainBase128(enc, 1, 0)
              /\ varint_out.offset
                    = varint_out.plain + CumulativeBias(Len(enc))

C6_Witness ==
    /\ pc = "varint_done" /\ varint_out.byte_count = 3
    /\ varint_out.offset = input.n /\ input.n > 16511

\* bytes consumed after the name's terminator by the last entry decoded
PadConsumed == last.end_pos - last.name_end

\* C7: for version < 4, after an entry decoded without a short read,
\* (offset - 4) mod 8 = 0, and between 0 and 7 padding bytes were consumed,
\* 0 exactly when the offset after the terminator was already aligned.
C7_PaddingInvariant ==
    (last.called /\ last.result = 0 /\ ~last.short /\ version < 4) =>
        /\ (last.end_pos - 4) % 8 = 0
        /\ PadConsumed \in 0..7
        /\ PadConsumed = 0 <=> (last.name_end - 4) % 8 = 0
        /\ pc \in {"stat", "ls_parse"} => file_pos = last.end_pos

C7_Witness ==
    /\ last.called /\ last.result = 0 /\ ~last.short /\ version = 3
    /\ Len(last.results) = 2 /\ PadConsumed = 7
    /\ (last.end_pos - 4) % 8 = 0

\* the entry loops have run to their end
EntriesReported == pc \in {"ext", "tree"} \/ (pc = "done" /\ exit_status = "0")

RECURSIVE ExpectedNodes(_)
ExpectedNodes(k) ==
    IF k = 0 THEN << >>
    ELSE ExpectedNodes(k - 1) \o input.trees[k]

\* main has just left the loop around pretty_read_tree
TreeJustDone ==
    /\ pc = "ext" /\ ext_log # << >>
    /\ ext_log[Len(ext_log)].sig = SigTREE
    /\ compared = << >>

\* C9: for a well-formed TREE payload the nodes are decoded in pre-order,
\* the object id is read exactly for the nodes with entry_count >= 0, and
\* when the decoder stops the offset is the declared end of the extension,
\* with no "Incomplete tree" report.
C9_TreeComplete ==
    input.wellformed =>
        /\ Prefix(tree_log, ExpectedNodes(Len(ext_log)))
        /\ \A i \in 1..Len(tree_log) :
              tree_log[i].sha1_read = DigestLen <=> tree_log[i].entry_count >= 0
        /\ \A i \in 1..Len(tree_log) :
              tree_log[i].sha1_read = -1 <=> tree_log[i].entry_count < 0
        /\ ~incomplete
        /\ pc = "tree" => file_pos <= endpos
        /\ pc \notin {"tree"} => tree_log = ExpectedNodes(Len(ext_log))
        /\ TreeJustDone =>
              /\ file_pos = endpos
              /\ file_pos - (ext_log[Len(ext_log)].at + ExtHeaderLen)
                    = ext_log[Len(ext_log)].len
        /\ exit_status \in {"running", "0"}

C9_Witness ==
    /\ input.wellformed /\ TreeJustDone /\ file_pos = endpos
    /\ Len(tree_log) = 4
    /\ tree_log[2].level = 1 /\ tree_log[3].level = 2 /\ tree_log[4].level = 1
    /\ tree_log[3].entry_count = -1 /\ tree_log[2].entry_count = 0

\* C10: an entry decoded with version < 3 or with flags bit 14 clear is
\* handed to the formatter with extended_flags 0 (or none), whatever the
\* entries before it carried.
C10_NoCarryOver ==
    \A i \in 1..Len(reported) :
        (reported[i].ok /\ ~HasExtendedFlags(version, reported[i].flags)) =>
            reported[i].extended_flags \in {0, -1}

\* a whole stream with a valid header and entries that decode
WholeInput ==
    /\ input.cut < 0 /\ input.sig = Magic /\ input.valid_strips
    /\ Len(stream) >= HeaderLen + DigestLen

\* C11: the 20 bytes compared with the digest are the final 20 bytes of the
\* stream; no extension that is dispatched starts or ends inside them; a
\* block that is not at stream length - 20 is not taken to be the trailer;
\* and once the comparison is made nothing more is read, dispatched or
\* compared.
C11_TrailerIsFinalTwenty ==
    WholeInput =>
        /\ \A i \in 1..Len(compared) :
              /\ compared[i].at = Len(stream) - DigestLen
              /\ compared[i].got = DigestLen
              /\ compared[i].hash
                    = SubSeq(stream, Len(stream) - DigestLen + 1, Len(stream))
        /\ \A i \in 1..Len(ext_log) :
              ext_log[i].at + ExtHeaderLen + ext_log[i].len
                 <= Len(stream) - DigestLen
        /\ Len(compared) <= 1
        /\ compared # << >> =>
              /\ rd = compared[1].at + DigestLen
              /\ pc # "tree"

\* calls of pretty_read_tree that the open calls have yet to make
RECURSIVE PendingCalls(_)
PendingCalls(stack) ==
    IF stack = << >> THEN 0
    ELSE stack[Len(stack)] + PendingCalls(SubSeq(stack, 1, Len(stack) - 1))

\* a step that brings the session nearer its end: it moves to another part
\* of the program, goes on to the next entry, consumes input, or uses up a
\* pending call of the tree decoder
Progress ==
    \/ pc' # pc
    \/ idx' > idx
    \/ rd' > rd
    \/ PendingCalls(tree_stack') < PendingCalls(tree_stack)

\* C12: the session ends on every finite stream, cut at any byte: no step
\* of the decoder, at end of stream in a version-4 varint or inside a TREE
\* extension or anywhere else, is an iteration of a loop that makes no
\* progress.
C12_NoLoopWithoutProgress == [][Progress]_vars

====
